---- MODULE Spec2Model ----
(***************************************************************************)
(* The stateful constructions of qFALL-crypto built on a preimage          *)
(* sampleable function: the FDH signature scheme, the Dual Regev IBE, the  *)
(* CCS-from-IBE encryption scheme, and the IBE parameter validators.       *)
(* Matrices are sequences of rows; strings are TLA+ strings, so that the   *)
(* storage keys are the very strings the code builds with format!.         *)
(***************************************************************************)
EXTENDS Integers, Sequences, FiniteSets, TLC

VARIABLES
    sig_storage,    \* FDH.storage: HashMap<String, Domain>
    sig_keys,       \* key pairs FDH::gen has returned to the caller
    sign_log,       \* every FDH::sign call of a caller: arguments and result
    ibe_storage,    \* DualRegevIBE.storage: HashMap<String, MatZ>
    ibe_keys,       \* master key pairs DualRegevIBE::setup has returned
    extract_log,    \* every (request, secret key) extract returned to a caller
    extract_sampled,\* the (request, secret key) pairs it got from samp_p
    ccs_keys,       \* the (pk, sk) CCSfromIBE::gen returned last, if any
    ret,            \* the last call: operation, arguments, result, callees
    par             \* (n, q, m, s, alpha) of the instance the validators read

vars == <<sig_storage, sig_keys, sign_log, ibe_storage, ibe_keys, extract_log,
          extract_sampled, ccs_keys, ret, par>>

-----------------------------------------------------------------------------
(* Bounds of the model *)

\* key pairs a caller keeps per scheme
MaxKeys == 2
\* entries a storage may hold before the model stops adding requests
MaxStored == 2
\* entries the two storages of CCSfromIBE may hold together before the model
\* stops adding ciphers
MaxCiphers == 2
-----------------------------------------------------------------------------
(* Integer and matrix arithmetic (qfall_math) *)

Abs(x) == IF x < 0 THEN -x ELSE x

RECURSIVE Pow(_, _)
Pow(b, e) == IF e = 0 THEN 1 ELSE b * Pow(b, e - 1)

\* Z::log_ceil(2): the least k with 2^k >= x
RECURSIVE LogCeilFrom(_, _)
LogCeilFrom(x, k) == IF Pow(2, k) >= x THEN k ELSE LogCeilFrom(x, k + 1)
log_ceil(x) == LogCeilFrom(x, 0)

\* f[lo] + ... + f[hi], summed by halves
RECURSIVE SumRange(_, _, _)
SumRange(f, lo, hi) ==
    IF lo > hi THEN 0
    ELSE IF lo = hi THEN f[lo]
    ELSE SumRange(f, lo, (lo + hi) \div 2)
             + SumRange(f, (lo + hi) \div 2 + 1, hi)

\* f[1] + ... + f[k]
RECURSIVE SumTo(_, _)
SumTo(f, k) == IF k = 0 THEN 0 ELSE f[k] + SumTo(f, k - 1)

NumRows(M) == Len(M)
NumCols(M) == Len(M[1])

MatMul(X, Y) ==
    [i \in 1..NumRows(X) |->
        [j \in 1..NumCols(Y) |->
            SumTo([l \in 1..NumCols(X) |-> X[i][l] * Y[l][j]], NumCols(X))]]

\* the product of matrices with long rows
MatMulWide(X, Y) ==
    [i \in 1..NumRows(X) |->
        [j \in 1..NumCols(Y) |->
            SumRange([l \in 1..NumCols(X) |-> X[i][l] * Y[l][j]],
                     1, NumCols(X))]]

MatSub(X, Y) ==
    [i \in 1..NumRows(X) |-> [j \in 1..NumCols(X) |-> X[i][j] - Y[i][j]]]

MatAdd(X, Y) ==
    [i \in 1..NumRows(X) |-> [j \in 1..NumCols(X) |-> X[i][j] + Y[i][j]]]

MatMod(X, q) ==
    [i \in 1..NumRows(X) |-> [j \in 1..NumCols(X) |-> X[i][j] % q]]

transpose(X) ==
    [j \in 1..NumCols(X) |-> [i \in 1..NumRows(X) |-> X[i][j]]]

concat_horizontal(X, Y) == [i \in 1..NumRows(X) |-> X[i] \o Y[i]]

concat_vertical(X, Y) == X \o Y

identity_mat(n) == [i \in 1..n |-> [j \in 1..n |-> IF i = j THEN 1 ELSE 0]]

\* all r x c matrices with entries in S
Mats(r, c, S) == [1..r -> [1..c -> S]]

-----------------------------------------------------------------------------
(* Display of matrices: "[[1, 2],[3, 4]]", with " mod q" for MatZq *)

RECURSIVE JoinRow(_, _)
JoinRow(row, j) ==
    IF j = 1 THEN ToString(row[1])
    ELSE JoinRow(row, j - 1) \o ", " \o ToString(row[j])

RECURSIVE JoinRows(_, _)
JoinRows(M, i) ==
    IF i = 1 THEN "[" \o JoinRow(M[1], Len(M[1])) \o "]"
    ELSE JoinRows(M, i - 1) \o ",[" \o JoinRow(M[i], Len(M[i])) \o "]"

MatZ_to_string(M) == "[" \o JoinRows(M, Len(M)) \o "]"

\* a MatZq is [mat |-> entries in 0..q-1, mod |-> q]
MatZq(M, q) == [mat |-> MatMod(M, q), mod |-> q]

MatZq_to_string(A) == MatZ_to_string(A.mat) \o " mod " \o ToString(A.mod)

\* a rational is <<numerator, denominator>>, denominator > 0, in lowest terms
Q_to_string(x) ==
    IF x[2] = 1 THEN ToString(x[1]) ELSE ToString(x[1]) \o "/" \o ToString(x[2])

RECURSIVE JoinRowQ(_, _)
JoinRowQ(row, j) ==
    IF j = 1 THEN Q_to_string(row[1])
    ELSE JoinRowQ(row, j - 1) \o ", " \o Q_to_string(row[j])

RECURSIVE JoinRowsQ(_, _)
JoinRowsQ(M, i) ==
    IF i = 1 THEN "[" \o JoinRowQ(M[1], Len(M[1])) \o "]"
    ELSE JoinRowsQ(M, i - 1) \o ",[" \o JoinRowQ(M[i], Len(M[i])) \o "]"

MatQ_to_string(M) == "[" \o JoinRowsQ(M, Len(M)) \o "]"

\* rationals: products and comparisons over positive denominators
Q_mul(x, y) == <<x[1] * y[1], x[2] * y[2]>>
Q_lt(x, y) == x[1] * y[2] < y[1] * x[2]
Q_le(x, y) == x[1] * y[2] <= y[1] * x[2]
Q_from(z) == <<z, 1>>

\* MatQ::from(&MatZ)
MatQ_from(M) ==
    [i \in 1..NumRows(M) |-> [j \in 1..NumCols(M) |-> <<M[i][j], 1>>]]

-----------------------------------------------------------------------------
(* Gadget parameters, gadget matrix, G-trapdoor *)

\* init_default with m_bar = n*k
init_default_without_log_term(n, q) ==
    LET k == log_ceil(q)
        m_bar == n * k
    IN  [n |-> n, q |-> q, k |-> k, base |-> 2, m_bar |-> m_bar,
         m |-> m_bar + n * k]

\* GadgetParameters::init_default(n, q): base 2, k = ceil(log2 q),
\* m_bar = n*k + ceil(log2 n)^2, m = m_bar + n*k
init_default(n, q) ==
    LET k == log_ceil(q)
        m_bar == n * k + log_ceil(n) * log_ceil(n)
    IN  [n |-> n, q |-> q, k |-> k, base |-> 2, m_bar |-> m_bar,
         m |-> m_bar + n * k]

\* gen_gadget_mat(n, k, base) = I_n (x) [1, base, ..., base^(k-1)]
gen_gadget_mat(n, k, base) ==
    [i \in 1..n |->
        [j \in 1..(n * k) |->
            IF (j - 1) \div k = i - 1 THEN Pow(base, (j - 1) % k) ELSE 0]]

\* gen_trapdoor(params, a_bar, tag) for the trapdoor r it samples:
\* a = [a_bar | tag * G - a_bar * r]
gen_trapdoor(params, a_bar, tag, r) ==
    LET g == gen_gadget_mat(params.n, params.k, params.base)
        right == MatSub(MatMul(tag, g), MatMulWide(a_bar, r))
    IN  [a |-> MatZq(concat_horizontal(a_bar, right), params.q), r |-> r]

\* the outcome of a call that panicked, with the random values it had drawn
\* before
Panicked(drawn) == [panic |-> TRUE, drawn |-> drawn]

\* gen_trapdoor_default with the zero matrix as tag
gen_trapdoor_default_zero_tag(n, q) ==
    IF ~(n >= 1) THEN { Panicked(<<>>) }
    ELSE
    LET params == init_default(n, q)
    IN  { gen_trapdoor(params, a_bar,
                       MatSub(identity_mat(params.n), identity_mat(params.n)),
                       r) :
            a_bar \in Mats(params.n, params.m_bar, 0..(params.q - 1)),
            r \in Mats(params.m_bar, params.n * params.k, {-1, 0, 1}) }

\* gen_trapdoor_default(n, q): a panic for n < 1, and else every (a, r) it
\* can return, one for each a_bar it can draw and each r gen_trapdoor can
gen_trapdoor_default(n, q) ==
    IF ~(n >= 1) THEN { Panicked(<<>>) }
    ELSE
    LET params == init_default(n, q)
    IN  { gen_trapdoor(params, a_bar, identity_mat(params.n), r) :
            a_bar \in Mats(params.n, params.m_bar, 0..(params.q - 1)),
            r \in Mats(params.m_bar, params.n * params.k, {-1, 0, 1}) }

\* Polynomials of Z[X] / (X^n + 1) are the sequences of their n coefficients,
\* the constant one first.
PolyConst(n, c) == [i \in 1..n |-> IF i = 1 THEN c ELSE 0]
PolyAdd(f, g) == [i \in 1..Len(f) |-> f[i] + g[i]]
PolySub(f, g) == [i \in 1..Len(f) |-> f[i] - g[i]]
PolyMod(f, q) == [i \in 1..Len(f) |-> f[i] % q]
\* f * g mod X^n + 1
PolyMul(f, g) ==
    LET n == Len(f)
    IN  [i \in 1..n |->
            SumTo([j \in 1..n |->
                      IF j <= i THEN f[j] * g[i - j + 1]
                      ELSE -(f[j] * g[n + i - j + 1])], n)]
Polys(n, S) == [1..n -> S]

\* GadgetParametersRing::init_default(n, q): base 2, k = ceil(log2 q),
\* polynomials modulo X^n + 1 and q
init_default_ring(n, q) ==
    [n |-> n, q |-> q, k |-> log_ceil(q), base |-> 2]

\* gen_trapdoor_ring_lwe(params, a_bar, s) for the trapdoor (r, e) it
\* samples: a = [1 | a_bar | g_1 - (a_bar * r_1 + e_1) | ... ]
gen_trapdoor_ring_lwe(params, a_bar, r, e) ==
    LET g(i) == PolyConst(params.n, Pow(params.base, i - 1))
    IN  [a |-> [i \in 1..(params.k + 2) |->
                   IF i = 1 THEN PolyConst(params.n, 1)
                   ELSE IF i = 2 THEN PolyMod(a_bar, params.q)
                   ELSE PolyMod(PolySub(g(i - 2),
                                        PolyAdd(PolyMul(a_bar, r[i - 2]),
                                                e[i - 2])),
                                params.q)],
         r |-> r, e |-> e]

\* gen_trapdoor_ring_default with the assertion on n after a_bar is drawn
gen_trapdoor_ring_default_late_assert(n, q, s) ==
    IF ~(n >= 1) THEN { Panicked(<<"a_bar">>) }
    ELSE
    LET params == init_default_ring(n, q)
    IN  { gen_trapdoor_ring_lwe(params, a_bar, r, e) :
            a_bar \in Polys(params.n, 0..(params.q - 1)),
            r \in [1..params.k -> Polys(params.n, {-1, 0, 1})],
            e \in [1..params.k -> Polys(params.n, {-1, 0, 1})] }

\* gen_trapdoor_ring_default(n, q, s): a panic for n < 1, and else every
\* (a, r, e) it can return; the width s only weights the choice of r and e
gen_trapdoor_ring_default(n, q, s) ==
    IF ~(n >= 1) THEN { Panicked(<<>>) }
    ELSE
    LET params == init_default_ring(n, q)
    IN  { gen_trapdoor_ring_lwe(params, a_bar, r, e) :
            a_bar \in Polys(params.n, 0..(params.q - 1)),
            r \in [1..params.k -> Polys(params.n, {-1, 0, 1})],
            e \in [1..params.k -> Polys(params.n, {-1, 0, 1})] }

-----------------------------------------------------------------------------
(* The preimage sampleable function PSFGPV {gp, s} *)

\* a * [r ; I] = G mod q: r is a G-trapdoor of a
IsTrapdoor(gp, a, r) ==
    /\ NumRows(r) = gp.m_bar
    /\ a.mod = gp.q
    /\ MatMod(MatMul(a.mat, concat_vertical(r, identity_mat(gp.n * gp.k))), gp.q)
         = MatMod(gen_gadget_mat(gp.n, gp.k, gp.base), gp.q)

\* PSF::trap_gen: fresh uniform a_bar, tag = I; the trapdoor is handed out
\* as the pair (MatZ, MatQ)
trap_gen(psf) ==
    { [pk |-> t.a, sk |-> <<t.r, MatQ_from(t.r)>>] :
        t \in gen_trapdoor_default(psf.gp.n, psf.gp.q) }

\* PSF::f_a(a, e) = a * e mod q
f_a(psf, a, e) == MatZq(MatMul(a.mat, e), a.mod)

\* PSF::check_domain(e): e is a column of m entries with ||e|| <= s * sqrt(m)
check_domain(psf, e) ==
    /\ NumRows(e) = psf.gp.m
    /\ Q_le(Q_from(SumTo([i \in 1..NumRows(e) |-> e[i][1] * e[i][1]],
                         NumRows(e))),
            Q_mul(Q_mul(psf.s, psf.s), Q_from(psf.gp.m)))

\* the largest b with b^2 <= s^2 * m
RECURSIVE RadiusFrom(_, _)
RadiusFrom(psf, b) ==
    IF Q_lt(Q_mul(Q_mul(psf.s, psf.s), Q_from(psf.gp.m)),
            Q_from((b + 1) * (b + 1)))
    THEN b ELSE RadiusFrom(psf, b + 1)
DomainRadius(psf) == RadiusFrom(psf, 0)

\* the vectors a caller or a misused sampler can come up with: the entries
\* an element of the domain can have, and one beyond
Vectors(psf) ==
    Mats(psf.gp.m, 1, (-(DomainRadius(psf) + 1))..(DomainRadius(psf) + 1))

\* PSF::samp_p(a, sk, u): randomized; with a trapdoor sk of a, any in-domain
\* preimage of u; with a matrix that is no trapdoor of a, any vector
samp_p(psf, a, sk, u) ==
    IF IsTrapdoor(psf.gp, a, sk[1])
    THEN { e \in Vectors(psf) : check_domain(psf, e) /\ f_a(psf, a, e) = u }
    ELSE Vectors(psf)

\* HashMatZq {modulus, rows, cols = 1}::hash and hash_to_mat_zq_sha256:
\* a deterministic map from strings into Z_q^{rows x 1}
hash_to_mat_zq(m, rows, q) ==
    MatZq([i \in 1..rows |-> <<Len(m) + i - 1>>], q)

-----------------------------------------------------------------------------
(* HashMap *)

contains_key(storage, key) == key \in DOMAIN storage

\* an insert that stores nothing
insert_dropped(storage, key, value) == storage

\* an insert that clears the map first
insert_cleared(storage, key, value) == [x \in {key} |-> value]

\* an insert that stores the value under a second key as well
insert_with_second_key(storage, key, value) ==
    [x \in (DOMAIN storage) \cup {key, key \o " "} |->
        IF x \in {key, key \o " "} THEN value ELSE storage[x]]

insert(storage, key, value) ==
    [x \in (DOMAIN storage) \cup {key} |-> IF x = key THEN value ELSE storage[x]]

EmptyMap == [x \in {} |-> 0]

-----------------------------------------------------------------------------
(* The instances under study *)

\* Fdh::init_gpv(n, modulus, s)
init_gpv(n, modulus, s) ==
    [psf |-> [gp |-> init_default(n, modulus), s |-> s],
     hash |-> [modulus |-> modulus, rows |-> n, cols |-> 1]]

fdh == init_gpv(1, 2, <<3, 4>>)

HashInto_hash(h, m) == hash_to_mat_zq(m, h.rows, h.modulus)

\* DualRegev::new(n, m, q, alpha)
DualRegev_new(n, m, q, alpha) == [n |-> n, m |-> m, q |-> q, alpha |-> alpha]

\* DualRegevIBE::new with m = m_bar handed to DualRegev
DualRegevIBE_new_without_gadget_columns(n, q, r, alpha) ==
    LET gadget == init_default(n, q)
        m == gadget.m_bar
    IN  [psf |-> [gp |-> gadget, s |-> r],
         dual_regev |-> DualRegev_new(n, m, q, alpha)]

\* DualRegevIBE::new(n, q, r, alpha)
DualRegevIBE_new(n, q, r, alpha) ==
    LET gadget == init_default(n, q)
        log_q == log_ceil(q)
        n_log_q == n * log_q
        m == gadget.m_bar + n_log_q
    IN  [psf |-> [gp |-> gadget, s |-> r],
         dual_regev |-> DualRegev_new(n, m, q, alpha)]

ibe == DualRegevIBE_new(1, 2, <<3, 4>>, <<1, 4>>)

-----------------------------------------------------------------------------
(* Dual Regev public key encryption, DualRegev {n, m, q, alpha} *)

\* the error vectors chi^(m+1) yields: entries within floor(alpha * q)
Errors(dr) ==
    LET b == (dr.alpha[1] * dr.q) \div dr.alpha[2]
    IN  Mats(dr.m + 1, 1, (-b)..b)

\* DualRegev::enc(pk, message): c = pk^t * s + e + [0, ..., 0, msg * floor(q/2)]
\* for a uniform s and an error e; every cipher it can return
DualRegev_enc(dr, pk, message) ==
    LET msg == message % 2
        top == [i \in 1..(dr.m + 1) |->
                   <<IF i = dr.m + 1 THEN msg * (dr.q \div 2) ELSE 0>>]
    IN  { MatZq(MatAdd(MatAdd(MatMul(transpose(pk.mat), s), e), top), dr.q) :
            s \in Mats(dr.n, 1, 0..(dr.q - 1)), e \in Errors(dr) }

\* DualRegev::dec(sk, cipher): [-sk^t | 1] * c is nearer to q/2 than to 0
DualRegev_dec(dr, sk, cipher) ==
    LET row == transpose(concat_vertical(MatSub(MatMul(sk, <<<<0>>>>), sk),
                                         <<<<1>>>>))
        v == MatMod(MatMul(row, cipher.mat), dr.q)[1][1]
        to_zero == IF v < dr.q - v THEN v ELSE dr.q - v
        to_half == Abs(v - dr.q \div 2)
    IN  IF to_half < to_zero THEN 1 ELSE 0

-----------------------------------------------------------------------------
(* Dual Regev IBE: the functions of setup, extract, enc and dec *)

\* every (master_pk, master_sk) DualRegevIBE::setup can return
setup == trap_gen(ibe.psf)

\* the storage key without the master secret key
storage_key_without_sk(master_pk, master_sk, identity) ==
    MatZq_to_string(master_pk) \o " " \o identity

\* format!("{master_pk} {} {} {identity}", master_sk.0, master_sk.1)
storage_key(master_pk, master_sk, identity) ==
    MatZq_to_string(master_pk) \o " " \o MatZ_to_string(master_sk[1]) \o " "
        \o MatQ_to_string(master_sk[2]) \o " " \o identity

\* hash_to_mat_zq_sha256(identity, n, 1, q) as extract of `instance` calls it
extract_hash_in(instance, identity) ==
    hash_to_mat_zq(identity, instance.dual_regev.n, instance.dual_regev.q)

extract_hash(identity) == extract_hash_in(ibe, identity)

\* the hash of enc with the number of columns of master_pk as rows
enc_hash_by_columns(master_pk, identity) ==
    hash_to_mat_zq(identity, NumCols(master_pk.mat), master_pk.mod)

\* hash_to_mat_zq_sha256(identity, rows of master_pk, 1, modulus of
\* master_pk) as enc calls it
enc_hash(master_pk, identity) ==
    hash_to_mat_zq(identity, NumRows(master_pk.mat), master_pk.mod)

\* DualRegevIBE::enc hashing the identity followed by a blank
enc_other_hash(master_pk, identity, message) ==
    LET identity_based_pk ==
            hash_to_mat_zq(identity \o " ", NumRows(master_pk.mat), master_pk.mod)
    IN  DualRegev_enc(ibe.dual_regev,
            MatZq(concat_horizontal(master_pk.mat, identity_based_pk.mat),
                  master_pk.mod),
            message)

\* DualRegevIBE::enc: every cipher it can return
enc(master_pk, identity, message) ==
    LET identity_based_pk == enc_hash(master_pk, identity)
    IN  DualRegev_enc(ibe.dual_regev,
            MatZq(concat_horizontal(master_pk.mat, identity_based_pk.mat),
                  master_pk.mod),
            message)

\* DualRegevIBE::dec
dec(sk_id, cipher) == DualRegev_dec(ibe.dual_regev, sk_id, cipher)

-----------------------------------------------------------------------------
(* The inputs of the calls, and the randomized and the costly functions      *)
(* tabulated over them                                                       *)

\* every key pair FDH::gen can return
FdhKeyPairs == trap_gen(fdh.psf)

\* the messages a caller signs
Messages == {"a"}

\* the identities callers ask keys for
Identities == {"ab", "[[0]] a"}

\* the identities CCSfromIBE::enc encrypts to: vrfy_key.clone().into()
CcsIdentities == { MatZq_to_string(kp.pk) : kp \in FdhKeyPairs }

MasterPks == { kp.pk : kp \in setup }

ibe_enc ==
    [pk \in MasterPks, id \in Identities \cup CcsIdentities, b \in {0, 1} |->
        enc(pk, id, b)]

Ciphers == UNION { ibe_enc[x] : x \in DOMAIN ibe_enc }

\* the messages CCSfromIBE::enc signs: c.to_string()
CcsMessages == { MatZq_to_string(c) : c \in Ciphers }

ibe_dec == [sk_id \in Vectors(ibe.psf), c \in Ciphers |-> dec(sk_id, c)]

\* samp_p(pk, sk, hash(m)) of the FDH instance
fdh_samp_p ==
    [kp \in FdhKeyPairs, m \in Messages \cup CcsMessages |->
        samp_p(fdh.psf, kp.pk, kp.sk, HashInto_hash(fdh.hash, m))]

\* samp_p(master_pk, master_sk, u) and the storage key of extract
ibe_samp_p ==
    [kp \in setup, id \in Identities \cup CcsIdentities |->
        samp_p(ibe.psf, kp.pk, kp.sk, extract_hash(id))]

ibe_storage_key ==
    [kp \in setup, id \in Identities \cup CcsIdentities |->
        storage_key(kp.pk, kp.sk, id)]

\* MatZq::to_string of the verification keys and of the ciphers
to_string ==
    [x \in { kp.pk : kp \in FdhKeyPairs } \cup Ciphers |-> MatZq_to_string(x)]

-----------------------------------------------------------------------------
(* FDH signature scheme *)

\* FDH::sign without the storage lookup: every call samples anew
sign_unmemoized(storage, m, sk, pk) ==
    { [sigma |-> e, storage |-> insert(storage, m, e), sampled |-> TRUE] :
        e \in fdh_samp_p[[pk |-> pk, sk |-> sk], m] }

\* FDH::sign on storage `storage`: every (signature, storage afterwards) it
\* can produce; sampled tells whether samp_p was called
sign(storage, m, sk, pk) ==
    IF contains_key(storage, m)
    THEN { [sigma |-> storage[m], storage |-> storage, sampled |-> FALSE] }
    ELSE { [sigma |-> e, storage |-> insert(storage, m, e), sampled |-> TRUE] :
             e \in fdh_samp_p[[pk |-> pk, sk |-> sk], m] }

\* vfy that accepts what the storage holds for the message
vfy_steps_stored(m, sigma, pk) ==
    IF contains_key(sig_storage, m) /\ sig_storage[m] = sigma
    THEN [ok |-> TRUE, f_a_called |-> FALSE]
    ELSE IF ~check_domain(fdh.psf, sigma)
    THEN [ok |-> FALSE, f_a_called |-> FALSE]
    ELSE [ok |-> f_a(fdh.psf, pk, sigma) = HashInto_hash(fdh.hash, m),
          f_a_called |-> TRUE]

\* FDH::vfy with its steps: the value returned, and whether f_a was
\* evaluated
vfy_steps(m, sigma, pk) ==
    IF ~check_domain(fdh.psf, sigma)
    THEN [ok |-> FALSE, f_a_called |-> FALSE]
    ELSE [ok |-> f_a(fdh.psf, pk, sigma) = HashInto_hash(fdh.hash, m),
          f_a_called |-> TRUE]

\* FDH::vfy
vfy(m, sigma, pk) == vfy_steps(m, sigma, pk).ok

NoCall == [op |-> "none"]

\* FDH::gen leaves the instance as it is; the caller keeps the key pair
FDH_gen ==
    \E kp \in FdhKeyPairs :
        /\ kp \in sig_keys \/ Cardinality(sig_keys) < MaxKeys
        /\ sig_keys' = sig_keys \cup {kp}
        /\ ret' = [op |-> "FDH.gen"]
        /\ UNCHANGED <<sig_storage, sign_log, ibe_storage, ibe_keys,
                       extract_log, extract_sampled, ccs_keys, par>>

FDH_sign ==
    \E kp \in sig_keys, m \in Messages :
        \E r \in sign(sig_storage, m, kp.sk, kp.pk) :
            /\ sig_storage' = r.storage
            /\ sign_log' = sign_log \cup
                 { [m |-> m, pk |-> kp.pk, sk |-> kp.sk, sigma |-> r.sigma,
                    sampled |-> r.sampled] }
            /\ ret' = [op |-> "FDH.sign", m |-> m, pk |-> kp.pk, sk |-> kp.sk,
                       sigma |-> r.sigma, sampled |-> r.sampled]
            /\ UNCHANGED <<sig_keys, ibe_storage, ibe_keys, extract_log,
                           extract_sampled, ccs_keys, par>>

\* signatures of a caller's own making: the zero vector, a vector outside
\* the domain, and a vector with a row too many
Forgeries ==
    { <<<<0>>, <<0>>>>, <<<<DomainRadius(fdh.psf) + 1>>, <<1>>>>,
      <<<<0>>, <<1>>, <<0>>>> }

FDH_vfy ==
    \E kp \in sig_keys, m \in Messages,
       sigma \in { sig_storage[x] : x \in DOMAIN sig_storage } \cup Forgeries :
        /\ ret' = [op |-> "FDH.vfy", m |-> m, sigma |-> sigma, pk |-> kp.pk,
                   ok |-> vfy_steps(m, sigma, kp.pk).ok,
                   f_a_called |-> vfy_steps(m, sigma, kp.pk).f_a_called]
        /\ UNCHANGED <<sig_storage, sig_keys, sign_log, ibe_storage, ibe_keys,
                       extract_log, extract_sampled, ccs_keys, par>>

NoPar == [n |-> 0]

InitFDH ==
    /\ sig_storage = EmptyMap
    /\ sig_keys = {}
    /\ sign_log = {}
    /\ ibe_storage = EmptyMap
    /\ ibe_keys = {}
    /\ extract_log = {}
    /\ extract_sampled = {}
    /\ ccs_keys = {}
    /\ ret = NoCall
    /\ par = NoPar

NextFDH == FDH_gen \/ FDH_sign \/ FDH_vfy

SpecFDH == InitFDH /\ [][NextFDH]_vars

-----------------------------------------------------------------------------
(* FDH: properties *)

SameRequest(x, y) == x.m = y.m /\ x.pk = y.pk /\ x.sk = y.sk

\* C2: two sign calls with the same message and the same key pair return
\* identical signatures
C2_SameRequestSameSignature ==
    \A x, y \in sign_log : SameRequest(x, y) => x.sigma = y.sigma

\* a request was signed twice: once by sampling, once from the storage
C2_Witness ==
    \E x, y \in sign_log :
        SameRequest(x, y) /\ x.sampled /\ ~y.sampled /\ x.sigma = y.sigma

\* C3: a sign call is answered from the storage only when the stored
\* signature was sampled for the same message under the same key pair; under
\* another key pair the signature is sampled anew
C3_MemoKeyedByKeyPair ==
    \A x \in sign_log :
        ~x.sampled => \E y \in sign_log : SameRequest(x, y) /\ y.sampled

\* C4: every signature sign returns for (m, sk, pk) verifies under pk
C4_SignThenVerify ==
    \A x \in sign_log : vfy(x.m, x.sigma, x.pk)

\* C18: vfy returns true if sigma is in the domain and f_a(pk, sigma) is
\* hash(m), and false for every other sigma; it evaluates f_a only when
\* check_domain holds; and it leaves the storage as it is, whose entries do
\* not count for the value returned
C18_VfyByDomainAndImage ==
    [][ret'.op = "FDH.vfy" =>
        /\ ret'.ok \in BOOLEAN
        /\ ret'.ok <=>
             /\ check_domain(fdh.psf, ret'.sigma)
             /\ f_a(fdh.psf, ret'.pk, ret'.sigma)
                  = HashInto_hash(fdh.hash, ret'.m)
        /\ ret'.f_a_called => check_domain(fdh.psf, ret'.sigma)
        /\ sig_storage' = sig_storage]_vars

\* vfy has returned false for the signature the storage holds for the
\* message, which is in the domain and no preimage under the public key
C18_Witness ==
    /\ ret.op = "FDH.vfy" /\ ~ret.ok /\ ret.f_a_called
    /\ contains_key(sig_storage, ret.m) /\ sig_storage[ret.m] = ret.sigma
    /\ check_domain(fdh.psf, ret.sigma)

-----------------------------------------------------------------------------
(* Dual Regev IBE *)

\* DualRegevIBE::extract without the storage lookup
extract_unmemoized(storage, master_pk, master_sk, identity) ==
    LET kp == [pk |-> master_pk, sk |-> master_sk]
        key == ibe_storage_key[kp, identity]
    IN  { [secret_key |-> e, storage |-> insert(storage, key, e),
           sampled |-> TRUE, key |-> key] : e \in ibe_samp_p[kp, identity] }

\* DualRegevIBE::extract on storage `storage`: every (secret key, storage
\* afterwards) it can produce; sampled tells whether samp_p was called
extract(storage, master_pk, master_sk, identity) ==
    LET kp == [pk |-> master_pk, sk |-> master_sk]
        key == ibe_storage_key[kp, identity]
    IN  IF contains_key(storage, key)
        THEN { [secret_key |-> storage[key], storage |-> storage,
                sampled |-> FALSE, key |-> key] }
        ELSE { [secret_key |-> e, storage |-> insert(storage, key, e),
                sampled |-> TRUE, key |-> key] : e \in ibe_samp_p[kp, identity] }

\* DualRegevIBE::setup leaves the instance as it is; the caller keeps the
\* master key pair
IBE_setup ==
    \E kp \in setup :
        /\ kp \in ibe_keys \/ Cardinality(ibe_keys) < MaxKeys
        /\ ibe_keys' = ibe_keys \cup {kp}
        /\ ret' = [op |-> "IBE.setup"]
        /\ UNCHANGED <<sig_storage, sig_keys, sign_log, ibe_storage,
                       extract_log, extract_sampled, ccs_keys, par>>

IBE_extract ==
    \E kp \in ibe_keys, id \in Identities :
        \E r \in extract(ibe_storage, kp.pk, kp.sk, id) :
            LET call == [pk |-> kp.pk, sk |-> kp.sk, id |-> id, key |-> r.key,
                         secret_key |-> r.secret_key]
            IN  /\ r.sampled => Cardinality(DOMAIN ibe_storage) < MaxStored
                /\ ibe_storage' = r.storage
                /\ extract_log' = extract_log \cup {call}
                /\ extract_sampled' =
                     IF r.sampled THEN extract_sampled \cup {call}
                     ELSE extract_sampled
                /\ ret' = [op |-> "IBE.extract", pk |-> kp.pk, sk |-> kp.sk,
                           id |-> id, secret_key |-> r.secret_key,
                           sampled |-> r.sampled]
                /\ UNCHANGED <<sig_storage, sig_keys, sign_log, ibe_keys,
                               ccs_keys, par>>

IBE_enc ==
    \E pk \in { kp.pk : kp \in ibe_keys }, id \in Identities, b \in {0, 1} :
        \E c \in ibe_enc[pk, id, b] :
            /\ ret' = [op |-> "IBE.enc", pk |-> pk, id |-> id, b |-> b,
                       cipher |-> c]
            /\ UNCHANGED <<sig_storage, sig_keys, sign_log, ibe_storage,
                           ibe_keys, extract_log, extract_sampled, ccs_keys,
                           par>>

\* dec of the cipher enc has just returned for (pk, id, b), under a secret
\* key extract has returned; matched: that key was extracted for (pk, id)
IBE_dec ==
    /\ ret.op = "IBE.enc"
    /\ \E x \in extract_log :
        /\ ret' = [op |-> "IBE.dec", m |-> ibe_dec[x.secret_key, ret.cipher],
                   b |-> ret.b,
                   matched |-> (x.pk = ret.pk /\ x.id = ret.id)]
        /\ UNCHANGED <<sig_storage, sig_keys, sign_log, ibe_storage, ibe_keys,
                       extract_log, extract_sampled, ccs_keys, par>>

InitIBE == InitFDH

NextIBE == IBE_setup \/ IBE_extract \/ IBE_enc \/ IBE_dec

SpecIBE == InitIBE /\ [][NextIBE]_vars

-----------------------------------------------------------------------------
(* Dual Regev IBE: properties *)

SameTriple(x, y) == x.pk = y.pk /\ x.sk = y.sk /\ x.id = y.id

\* C1: two extract calls with the same (master_pk, master_sk, identity)
\* return equal secret keys
C1_SameTripleSameKey ==
    \A x, y \in extract_log : SameTriple(x, y) => x.secret_key = y.secret_key

\* a triple was extracted before and is now answered from the storage
C1_Witness ==
    /\ ret.op = "IBE.extract" /\ ~ret.sampled
    /\ \E x \in extract_sampled :
           SameTriple(x, ret) /\ x.secret_key = ret.secret_key

\* C5: requests that differ in the master public key, the master secret key
\* or the identity have different storage keys, and whatever extract returns
\* for a triple was sampled by samp_p for that very triple
C5_StoredOnlyForSameTriple ==
    /\ \A x, y \in extract_log : x.key = y.key => SameTriple(x, y)
    /\ \A x \in extract_log :
           \E y \in extract_sampled :
               SameTriple(x, y) /\ y.secret_key = x.secret_key

\* a request answered from the storage while the storage also holds the key
\* of a request with the same master public key and identity but another
\* master secret key
C5_Witness ==
    /\ ret.op = "IBE.extract" /\ ~ret.sampled
    /\ \E x, y \in extract_sampled :
           x.pk = y.pk /\ x.sk # y.sk /\ x.id = y.id /\ SameTriple(x, ret)

-----------------------------------------------------------------------------
(* CCSfromIBE {ibe, signature} over the Dual Regev IBE and the FDH signature *)

\* CCSfromIBE::dec going on to extract and dec whatever vfy says
ccs_dec_unverified(storage, sk, cipher) ==
    { [m |-> ibe_dec[r.secret_key, cipher[2]], storage |-> r.storage,
       calls |-> <<"signature.vfy", "ibe.extract", "ibe.dec">>,
       vfy_call |-> [m |-> to_string[cipher[2]], sigma |-> cipher[3],
                     pk |-> cipher[1]],
       extract_call |-> [master_pk |-> sk[1],
                         identity |-> to_string[cipher[1]]],
       sampled |-> r.sampled] :
        r \in extract(storage, sk[1], sk[2], to_string[cipher[1]]) }

\* CCSfromIBE::dec that extracts the key of the identity "ab"
ccs_dec_fixed_identity(storage, sk, cipher) ==
    IF ~vfy(to_string[cipher[2]], cipher[3], cipher[1])
    THEN { [m |-> -1, storage |-> storage, calls |-> <<"signature.vfy">>,
            vfy_call |-> [m |-> to_string[cipher[2]], sigma |-> cipher[3],
                          pk |-> cipher[1]],
            extract_call |-> NoCall,
            sampled |-> FALSE] }
    ELSE { [m |-> ibe_dec[r.secret_key, cipher[2]], storage |-> r.storage,
            calls |-> <<"signature.vfy", "ibe.extract", "ibe.dec">>,
            vfy_call |-> [m |-> to_string[cipher[2]], sigma |-> cipher[3],
                          pk |-> cipher[1]],
            extract_call |-> [master_pk |-> sk[1], identity |-> "ab"],
            sampled |-> r.sampled] :
             r \in extract(storage, sk[1], sk[2], "ab") }

\* CCSfromIBE::dec on IBE storage `storage`: every (result, storage
\* afterwards) it can produce, and the calls it makes, with the arguments
\* of signature.vfy and of ibe.extract
ccs_dec(storage, sk, cipher) ==
    IF ~vfy(to_string[cipher[2]], cipher[3], cipher[1])
    THEN { [m |-> -1, storage |-> storage, calls |-> <<"signature.vfy">>,
            vfy_call |-> [m |-> to_string[cipher[2]], sigma |-> cipher[3],
                          pk |-> cipher[1]],
            extract_call |-> NoCall,
            sampled |-> FALSE] }
    ELSE { [m |-> ibe_dec[r.secret_key, cipher[2]], storage |-> r.storage,
            calls |-> <<"signature.vfy", "ibe.extract", "ibe.dec">>,
            vfy_call |-> [m |-> to_string[cipher[2]], sigma |-> cipher[3],
                          pk |-> cipher[1]],
            extract_call |-> [master_pk |-> sk[1],
                              identity |-> to_string[cipher[1]]],
            sampled |-> r.sampled] :
             r \in extract(storage, sk[1], sk[2], to_string[cipher[1]]) }

\* the cipher a caller hands to dec besides the one enc returned: the same
\* with the signature replaced by the zero vector
Tampered(cipher) == { <<cipher[1], cipher[2], MatSub(cipher[3], cipher[3])>> }

\* entries the two storages hold together
StoredCiphers ==
    Cardinality(DOMAIN sig_storage) + Cardinality(DOMAIN ibe_storage)

\* CCSfromIBE::gen: (pk, sk) = (mpk, (mpk, msk)) for (mpk, msk) = ibe.setup();
\* the caller goes on with the key pair it got last
CCS_gen ==
    \E kp \in setup :
        /\ ccs_keys' = { [pk |-> kp.pk, sk |-> <<kp.pk, kp.sk>>] }
        /\ ret' = [op |-> "CCS.gen"]
        /\ UNCHANGED <<sig_storage, sig_keys, sign_log, ibe_storage, ibe_keys,
                       extract_log, extract_sampled, par>>

\* CCSfromIBE::enc: (vrfy_key, sign_key) = signature.gen(),
\* c = ibe.enc(pk, vrfy_key.into(), message),
\* sigma = signature.sign(c.to_string(), sign_key, vrfy_key)
CCS_enc ==
    \E k \in ccs_keys, b \in {0, 1}, kp \in FdhKeyPairs :
        \E c \in ibe_enc[k.pk, to_string[kp.pk], b] :
            /\ contains_key(sig_storage, to_string[c])
                 \/ StoredCiphers < MaxCiphers
            /\ \E r \in sign(sig_storage, to_string[c], kp.sk, kp.pk) :
                /\ sig_storage' = r.storage
                /\ ret' = [op |-> "CCS.enc", pk |-> k.pk, b |-> b,
                           cipher |-> <<kp.pk, c, r.sigma>>]
                /\ UNCHANGED <<sig_keys, sign_log, ibe_storage, ibe_keys,
                               extract_log, extract_sampled, ccs_keys, par>>

\* dec of the cipher enc has just returned for (pk, b), or of a tampered
\* one; honest: the cipher is enc's and the secret key belongs to pk;
\* verified: what signature.vfy says of the cipher
CCS_dec ==
    /\ ret.op = "CCS.enc"
    /\ \E k \in ccs_keys, cipher \in {ret.cipher} \cup Tampered(ret.cipher) :
        \E r \in ccs_dec(ibe_storage, k.sk, cipher) :
            /\ r.sampled => StoredCiphers < MaxCiphers
            /\ ibe_storage' = r.storage
            /\ ret' = [op |-> "CCS.dec", m |-> r.m, b |-> ret.b,
                       honest |-> (cipher = ret.cipher /\ k.pk = ret.pk),
                       verified |-> vfy(to_string[cipher[2]], cipher[3],
                                        cipher[1]),
                       calls |-> r.calls]
            /\ UNCHANGED <<sig_storage, sig_keys, sign_log, ibe_keys,
                           extract_log, extract_sampled, ccs_keys, par>>

InitCCS == InitFDH

NextCCS == CCS_gen \/ CCS_enc \/ CCS_dec

SpecCCS == InitCCS /\ [][NextCCS]_vars

-----------------------------------------------------------------------------
(* CCSfromIBE: properties *)

\* C6: a dec call on a cipher whose signature does not verify returns -1,
\* calls signature.vfy only, and leaves both storages as they were
C6_InvalidSignatureSentinel ==
    [][(ret'.op = "CCS.dec" /\ ~ret'.verified) =>
          /\ ret'.m = -1
          /\ ret'.calls = <<"signature.vfy">>
          /\ ibe_storage' = ibe_storage
          /\ sig_storage' = sig_storage]_vars

\* dec has answered a cipher with a non-verifying signature by -1 while both
\* storages hold entries
C6_Witness ==
    /\ ret.op = "CCS.dec" /\ ~ret.verified /\ ret.m = -1
    /\ DOMAIN ibe_storage # {} /\ DOMAIN sig_storage # {}

\* C7: dec under sk of the cipher enc made for (pk, b) returns b
C7_DecOfEnc ==
    (ret.op = "CCS.dec" /\ ret.honest) => ret.m = ret.b

-----------------------------------------------------------------------------
(* CCSfromIBE: the calls enc and dec make on the IBE and on the signature *)

\* gen; the caller generates one key pair
Calls_gen ==
    \E kp \in setup :
        /\ ccs_keys = {}
        /\ ccs_keys' = { [pk |-> kp.pk, sk |-> <<kp.pk, kp.sk>>] }
        /\ ret' = [op |-> "CCS.gen"]
        /\ UNCHANGED <<sig_storage, sig_keys, sign_log, ibe_storage, ibe_keys,
                       extract_log, extract_sampled, par>>

\* enc, with the calls it makes and their arguments and results
Calls_enc ==
    \E k \in ccs_keys, b \in {0, 1}, kp \in FdhKeyPairs :
        \E c \in ibe_enc[k.pk, to_string[kp.pk], b] :
            /\ contains_key(sig_storage, to_string[c])
                 \/ StoredCiphers < MaxCiphers
            /\ \E r \in sign(sig_storage, to_string[c], kp.sk, kp.pk) :
                /\ sig_storage' = r.storage
                /\ ret' = [op |-> "CCS.enc", pk |-> k.pk, b |-> b,
                           cipher |-> <<kp.pk, c, r.sigma>>,
                           calls |->
                             << [f |-> "signature.gen", pk |-> kp.pk],
                                [f |-> "ibe.enc", pk |-> k.pk,
                                 identity |-> to_string[kp.pk],
                                 message |-> b, c |-> c],
                                [f |-> "signature.sign", m |-> to_string[c],
                                 pk |-> kp.pk, sigma |-> r.sigma] >>]
                /\ UNCHANGED <<sig_keys, sign_log, ibe_storage, ibe_keys,
                               extract_log, extract_sampled, ccs_keys, par>>

\* dec of the cipher enc has just returned, or of a tampered one, with the
\* calls it makes and their arguments
Calls_dec ==
    /\ ret.op = "CCS.enc"
    /\ \E k \in ccs_keys, cipher \in {ret.cipher} \cup Tampered(ret.cipher) :
        \E r \in ccs_dec(ibe_storage, k.sk, cipher) :
            /\ r.sampled => StoredCiphers < MaxCiphers
            /\ ibe_storage' = r.storage
            /\ ret' = [op |-> "CCS.dec", m |-> r.m, b |-> ret.b,
                       honest |-> (cipher = ret.cipher /\ k.pk = ret.pk),
                       verified |-> vfy(to_string[cipher[2]], cipher[3],
                                        cipher[1]),
                       calls |-> r.calls,
                       cipher |-> cipher, sk_0 |-> k.sk[1],
                       vfy_call |-> r.vfy_call,
                       extract_call |-> r.extract_call]
            /\ UNCHANGED <<sig_storage, sig_keys, sign_log, ibe_keys,
                           extract_log, extract_sampled, ccs_keys, par>>

NextCalls == Calls_gen \/ Calls_enc \/ Calls_dec

SpecCalls == InitCCS /\ [][NextCalls]_vars

\* C20: gen returns the master public key as pk and as first part of sk;
\* enc makes one call of signature.gen, one of ibe.enc and one of
\* signature.sign: it encrypts under the string of the verification key it
\* generated and signs the string of the IBE ciphertext it returns, with the
\* key pair it generated; dec verifies the signature of the cipher over the
\* string of its IBE ciphertext under its verification key, and extracts
\* under sk.0 the key of the string of that verification key
C20_EncDecCalls ==
    /\ \A k \in ccs_keys : k.sk[1] = k.pk
    /\ ret.op = "CCS.enc" =>
         LET vrfy_key == ret.cipher[1]
             c == ret.cipher[2]
             sigma == ret.cipher[3]
         IN  /\ Len(ret.calls) = 3
             /\ ret.calls[1] = [f |-> "signature.gen", pk |-> vrfy_key]
             /\ ret.calls[2] =
                  [f |-> "ibe.enc", pk |-> ret.pk,
                   identity |-> MatZq_to_string(vrfy_key),
                   message |-> ret.b, c |-> c]
             /\ ret.calls[3] =
                  [f |-> "signature.sign", m |-> MatZq_to_string(c),
                   pk |-> vrfy_key, sigma |-> sigma]
    /\ ret.op = "CCS.dec" =>
         /\ ret.vfy_call =
              [m |-> MatZq_to_string(ret.cipher[2]), sigma |-> ret.cipher[3],
               pk |-> ret.cipher[1]]
         /\ ret.sk_0 \in { k.pk : k \in ccs_keys }
         /\ ret.verified =>
              ret.extract_call =
                  [master_pk |-> ret.sk_0,
                   identity |-> MatZq_to_string(ret.cipher[1])]
         /\ ~ret.verified => ret.extract_call = NoCall

\* dec has verified a cipher of enc and extracted the key of its
\* verification key under the master public key of gen
C20_Witness ==
    /\ ret.op = "CCS.dec" /\ ret.verified /\ ret.honest
    /\ ret.calls = <<"signature.vfy", "ibe.extract", "ibe.dec">>
    /\ ret.extract_call.master_pk \in { k.pk : k \in ccs_keys }
    /\ ret.extract_call.identity = to_string[ret.cipher[1]]
    /\ contains_key(sig_storage, to_string[ret.cipher[2]])

\* storage `after` holds every entry of storage `before`, and at most one
\* more
AddsAtMostOne(before, after) ==
    /\ DOMAIN before \subseteq DOMAIN after
    /\ \A x \in DOMAIN before : after[x] = before[x]
    /\ Cardinality(DOMAIN after \ DOMAIN before) <= 1

\* C23: gen changes neither storage; enc leaves the IBE storage as it is and
\* adds at most one entry to the signature storage; dec leaves the signature
\* storage as it is and adds at most one entry to the IBE storage, exactly
\* one when the signature verifies and the storage has no entry for the
\* request (sk.0, sk.1, identity of the verification key)
C23_StorageFrames ==
    [][ /\ ret'.op = "CCS.gen" =>
             /\ sig_storage' = sig_storage
             /\ ibe_storage' = ibe_storage
        /\ ret'.op = "CCS.enc" =>
             /\ ibe_storage' = ibe_storage
             /\ AddsAtMostOne(sig_storage, sig_storage')
        /\ ret'.op = "CCS.dec" =>
             /\ sig_storage' = sig_storage
             /\ AddsAtMostOne(ibe_storage, ibe_storage')
             /\ \A k \in ccs_keys :
                    ( /\ k.sk[1] = ret'.sk_0
                      /\ ret'.verified
                      /\ ~contains_key(ibe_storage,
                                       storage_key(k.sk[1], k.sk[2],
                                                   ret'.extract_call.identity)) )
                    => Cardinality(DOMAIN ibe_storage' \ DOMAIN ibe_storage) = 1
      ]_vars

\* enc has added one signature and then dec, of a cipher that verifies, one
\* extracted key, stored under the request of dec
C23_Witness ==
    /\ ret.op = "CCS.dec" /\ ret.verified
    /\ Cardinality(DOMAIN sig_storage) = 1
    /\ \E k \in ccs_keys :
           DOMAIN ibe_storage =
               { storage_key(k.sk[1], k.sk[2], ret.extract_call.identity) }

-----------------------------------------------------------------------------
(* The parameter validators of DualRegevIBE *)

\* the logarithm to base 2 and the square root, on the arguments on which
\* they are integers
log_2(x) == CHOOSE k \in 0..12 : Pow(2, k) = x

\* the greatest k with 2^k <= x
RECURSIVE LogFloorFrom(_, _)
LogFloorFrom(x, k) == IF Pow(2, k + 1) > x THEN k ELSE LogFloorFrom(x, k + 1)
log_floor(x) == LogFloorFrom(x, 0)

\* m <= k * log2(q), that is 2^m <= q^k, for integers m, k >= 0 and q >= 1;
\* the powers are taken only where floor and ceiling of log2(q) do not decide
le_mul_log2(m, k, q) ==
    IF m <= k * log_floor(q) THEN TRUE
    ELSE IF m > k * log_ceil(q) THEN FALSE
    ELSE Pow(2, m) <= Pow(q, k)

\* The validators compute with square roots. A real x >= 0 whose square is
\* rational is <<a, b>> with x^2 = a / b and b > 0; products, quotients and
\* comparisons of such reals are those of their squares.
R_from(z) == <<z * z, 1>>
R_from_Q(x) == <<x[1] * x[1], x[2] * x[2]>>
\* Z::sqrt
R_sqrt(z) == <<z, 1>>
R_mul(x, y) == <<x[1] * y[1], x[2] * y[2]>>
R_div(x, y) == <<x[1] * y[2], x[2] * y[1]>>
R_lt(x, y) == x[1] * y[2] < y[1] * x[2]
R_le(x, y) == x[1] * y[2] <= y[1] * x[2]

Ok == [ok |-> TRUE, err |-> "", msg |-> ""]
InvalidIntegerInput(msg) ==
    [ok |-> FALSE, err |-> "InvalidIntegerInput", msg |-> msg]

\* check_security with m < (n + 1) * log(q) as its third test: for the
\* integer m, m + 1 <= (n + 1) * log(q)
check_security_lax(p) ==
    IF R_lt(R_from(p.q), R_mul(R_mul(R_from(5), p.s), R_from(p.m + 1)))
    THEN InvalidIntegerInput("Security is not guaranteed as q < 5 * r * (m + 1), but q >= 5 * r * (m + 1) is required.")
    ELSE IF R_lt(p.s, R_sqrt(p.m))
    THEN InvalidIntegerInput("Security is not guaranteed as r < sqrt(m), but r >= sqrt(m) is required.")
    ELSE IF le_mul_log2(p.m + 1, p.n + 1, p.q)
    THEN InvalidIntegerInput("Security is not guaranteed as m <= (n + 1) * log(q), but m > (n + 1) * log(q) is required.")
    ELSE Ok

\* DualRegevIBE::check_security on the instance with parameters p
check_security(p) ==
    IF R_lt(R_from(p.q), R_mul(R_mul(R_from(5), p.s), R_from(p.m + 1)))
    THEN InvalidIntegerInput("Security is not guaranteed as q < 5 * r * (m + 1), but q >= 5 * r * (m + 1) is required.")
    ELSE IF R_lt(p.s, R_sqrt(p.m))
    THEN InvalidIntegerInput("Security is not guaranteed as r < sqrt(m), but r >= sqrt(m) is required.")
    ELSE IF le_mul_log2(p.m, p.n + 1, p.q)
    THEN InvalidIntegerInput("Security is not guaranteed as m <= (n + 1) * log(q), but m > (n + 1) * log(q) is required.")
    ELSE Ok

\* DualRegevIBE::check_correctness on the instance with parameters p:
\* 1 / (2 * s * sqrt(m + 1)) * log2(n) is (1 / (2 * s * sqrt(m + 1))) * log2(n)
check_correctness(p) ==
    IF p.n <= 1
    THEN InvalidIntegerInput("n must be chosen bigger than 1.")
    ELSE IF R_lt(R_mul(R_div(R_from(1),
                             R_mul(R_mul(R_from(2), p.s),
                                   R_sqrt(p.m + 1))),
                       R_from(log_2(p.n))),
                 p.alpha)
    THEN InvalidIntegerInput("Correctness is not guaranteed as α > 1/(r * sqrt(m) * log(n)), but α <= 1/(2 * r * sqrt(m) * log(n)) is required.")
    ELSE Ok

\* the parameter sets the validators are run on: n and q powers of two,
\* s in {1, 16/5, 5}, alpha in {1/100, 1/50, 1/5}
Params ==
    [n : {1, 2, 4}, q : {64, 1024, 4096}, m : {3, 8, 15, 24},
     s : { R_from_Q(x) : x \in {<<1, 1>>, <<16, 5>>, <<5, 1>>} },
     alpha : { R_from_Q(x) : x \in {<<1, 100>>, <<1, 50>>, <<1, 5>>} }]

\* Z::div_ceil
div_ceil(x, y) == (x + y - 1) \div y

\* x is a prime: no d with 2 <= d and d * d <= x divides it; the range of d
\* ends at a power of two that is at least the square root of x
IsPrime(x) ==
    /\ x > 1
    /\ \A d \in 2..Pow(2, (log_ceil(x) + 1) \div 2) : d * d > x \/ x % d # 0

\* the values sample_prime_uniform(lower, upper) can return
sample_prime_uniform(lower, upper) == { x \in lower..upper : IsPrime(x) }

\* the exponent new_from_n chooses for n
power_of(n) ==
    CASE n \in 2..3 -> 10
      [] n = 4 -> 7
      [] n \in 5..7 -> 6
      [] OTHER -> 5

\* new_from_n with the modulus drawn from [n^(power-1) / 2, n^(power-1)]
new_from_n_smaller_modulus(n) ==
    LET upper_bound == Pow(n, power_of(n) - 1)
        lower_bound == div_ceil(upper_bound, 2)
    IN  { LET gadget == init_default(n, q)
              m == gadget.m_bar + n * log_ceil(q)
              r == R_sqrt(m)
              alpha == R_div(R_from(1),
                             R_mul(R_mul(R_mul(r, R_from(2)), R_sqrt(m + 1)),
                                   R_from(log_2(n))))
          IN  [psf |-> [gp |-> gadget, s |-> r],
               dual_regev |-> DualRegev_new(n, m, q, alpha)]
          : q \in sample_prime_uniform(lower_bound, upper_bound) }

\* new_from_n(n): a panic for n < 2, and else the instances it can return,
\* one for each prime it can draw, with s and alpha as reals; n is a power of
\* two, so that log_2(n) is an integer.
new_from_n(n) ==
    IF n < 2 THEN { Panicked(<<>>) }
    ELSE
    LET upper_bound == Pow(n, power_of(n))
        lower_bound == div_ceil(upper_bound, 2)
    IN  { LET gadget == init_default(n, q)
              m == gadget.m_bar + n * log_ceil(q)
              r == R_sqrt(m)
              alpha == R_div(R_from(1),
                             R_mul(R_mul(R_mul(r, R_from(2)), R_sqrt(m + 1)),
                                   R_from(log_2(n))))
          IN  [psf |-> [gp |-> gadget, s |-> r],
               dual_regev |-> DualRegev_new(n, m, q, alpha)]
          : q \in sample_prime_uniform(lower_bound, upper_bound) }

\* DualRegevIBE::default()
Default == new_from_n(4)

\* the fields the validators read, of an instance of new_from_n
parameters_real(instance) ==
    [n |-> instance.dual_regev.n, q |-> instance.dual_regev.q,
     m |-> instance.dual_regev.m, s |-> instance.psf.s,
     alpha |-> instance.dual_regev.alpha]

DefaultParameters == { parameters_real(i) : i \in Default }

\* check_security that empties the storage of the instance
DualRegevIBE_check_security_clearing ==
    /\ ret' = [op |-> "check_security", res |-> check_security(par)]
    /\ ibe_storage' = EmptyMap
    /\ UNCHANGED <<sig_storage, sig_keys, sign_log, ibe_keys,
                   extract_log, extract_sampled, ccs_keys, par>>

DualRegevIBE_check_security ==
    /\ ret' = [op |-> "check_security", res |-> check_security(par)]
    /\ UNCHANGED <<sig_storage, sig_keys, sign_log, ibe_storage, ibe_keys,
                   extract_log, extract_sampled, ccs_keys, par>>

DualRegevIBE_check_correctness ==
    /\ ret' = [op |-> "check_correctness", res |-> check_correctness(par)]
    /\ UNCHANGED <<sig_storage, sig_keys, sign_log, ibe_storage, ibe_keys,
                   extract_log, extract_sampled, ccs_keys, par>>

InitParams ==
    /\ sig_storage = EmptyMap
    /\ sig_keys = {}
    /\ sign_log = {}
    /\ ibe_storage = EmptyMap
    /\ ibe_keys = {}
    /\ extract_log = {}
    /\ extract_sampled = {}
    /\ ccs_keys = {}
    /\ ret = NoCall
    /\ par \in Params \cup DefaultParameters

NextParams == DualRegevIBE_check_security \/ DualRegevIBE_check_correctness

SpecParams == InitParams /\ [][NextParams]_vars

-----------------------------------------------------------------------------
(* Parameter validators: properties *)

\* the three requirements of check_security on the parameters p
SecurityQ(p) == R_le(R_mul(R_mul(R_from(5), p.s), R_from(p.m + 1)), R_from(p.q))
SecurityS(p) == R_le(R_sqrt(p.m), p.s)
SecurityM(p) == ~le_mul_log2(p.m, p.n + 1, p.q)

C10_CheckCorrectness ==
    ret.op = "check_correctness" =>
        /\ ret.res.ok <=>
             /\ par.n > 1
             /\ R_le(par.alpha,
                     R_div(R_from(1),
                           R_mul(R_mul(R_mul(R_from(2), par.s),
                                       R_sqrt(par.m + 1)),
                                 R_from(log_2(par.n)))))
        /\ ~ret.res.ok => ret.res.err = "InvalidIntegerInput"

\* C11: every parameter set that new_from_n(4) can return, one for each
\* prime of [4^7 / 2, 4^7], passes check_security and check_correctness
C11_DefaultPassesValidators ==
    (par \in DefaultParameters /\ ret.op \in {"check_security", "check_correctness"}) =>
        ret.res.ok

\* check_security has accepted the default parameter set with the smallest
\* prime new_from_n(4) can draw, the one closest to q >= 5 * s * (m + 1)
C11_Witness ==
    /\ par \in DefaultParameters
    /\ \A p \in DefaultParameters : par.q <= p.q
    /\ par.n = 4 /\ par.m = 116 /\ par.s = R_sqrt(116)
    /\ ret.op = "check_security" /\ ret.res.ok

-----------------------------------------------------------------------------
(* The calls made on one instance, an FDH or a DualRegevIBE *)

\* the instance the calls of a behaviour are made on
Instances == { [instance |-> "FDH"], [instance |-> "DualRegevIBE"] }

InitMemo ==
    /\ sig_storage = EmptyMap
    /\ sig_keys = {}
    /\ sign_log = {}
    /\ ibe_storage = EmptyMap
    /\ ibe_keys = {}
    /\ extract_log = {}
    /\ extract_sampled = {}
    /\ ccs_keys = {}
    /\ ret = NoCall
    /\ par \in Instances

NextMemo ==
    \/ par.instance = "FDH" /\ NextFDH
    \/ par.instance = "DualRegevIBE" /\ NextIBE

SpecMemo == InitMemo /\ [][NextMemo]_vars

\* C13: a call of extract invokes samp_p only if no earlier call on the
\* instance has invoked it for the same master public key, master secret key
\* and identity; a call of sign invokes samp_p only if no earlier call has
\* invoked it for the same message and key pair
C13_SampledAtMostOnce ==
    [][/\ (ret'.op = "IBE.extract" /\ ret'.sampled) =>
            ~\E c \in extract_sampled :
                c.pk = ret'.pk /\ c.sk = ret'.sk /\ c.id = ret'.id
       /\ (ret'.op = "FDH.sign" /\ ret'.sampled) =>
            ~\E c \in sign_log :
                /\ c.sampled
                /\ c.m = ret'.m /\ c.pk = ret'.pk /\ c.sk = ret'.sk]_vars

\* extract has sampled for two triples, and a further call for one of them
\* was answered without samp_p
C13_Witness ==
    /\ Cardinality(extract_sampled) = 2
    /\ ret.op = "IBE.extract" /\ ~ret.sampled
    /\ \E c \in extract_sampled :
           c.pk = ret.pk /\ c.sk = ret.sk /\ c.id = ret.id

-----------------------------------------------------------------------------
(* The validators and the operations on one DualRegevIBE *)

\* the fields of an instance the validators read, as reals
parameters(instance) ==
    [n |-> instance.dual_regev.n, q |-> instance.dual_regev.q,
     m |-> instance.dual_regev.m, s |-> R_from_Q(instance.psf.s),
     alpha |-> R_from_Q(instance.dual_regev.alpha)]

\* the parameters of DualRegevIBE::new(2, 2, 2, 2)
new_availability == parameters(DualRegevIBE_new(2, 2, <<2, 1>>, <<2, 1>>))

\* setup; the caller sets up one master key pair
Validated_setup ==
    \E kp \in setup :
        /\ ibe_keys = {}
        /\ ibe_keys' = {kp}
        /\ ret' = [op |-> "IBE.setup"]
        /\ UNCHANGED <<sig_storage, sig_keys, sign_log, ibe_storage,
                       extract_log, extract_sampled, ccs_keys, par>>

\* the instance ibe = DualRegevIBE::new(1, 2, 3/4, 1/4)
InitValidated ==
    /\ sig_storage = EmptyMap
    /\ sig_keys = {}
    /\ sign_log = {}
    /\ ibe_storage = EmptyMap
    /\ ibe_keys = {}
    /\ extract_log = {}
    /\ extract_sampled = {}
    /\ ccs_keys = {}
    /\ ret = NoCall
    /\ par = parameters(ibe)

NextValidated ==
    \/ Validated_setup \/ IBE_extract \/ IBE_enc \/ IBE_dec
    \/ DualRegevIBE_check_security \/ DualRegevIBE_check_correctness

SpecValidated == InitValidated /\ [][NextValidated]_vars

\* C16: new builds instances that violate the bounds, the instance ibe and
\* DualRegevIBE::new(2, 2, 2, 2); on such an instance setup, extract, enc
\* and dec return their results and no error, whatever the validators
\* returned before; and a call of check_security or check_correctness leaves
\* the storage and the parameters as they are
C16_ValidatorsOnlyOnDemand ==
    [][/\ ~check_security(par').ok /\ ~check_correctness(par').ok
       /\ new_availability.n = 2 /\ new_availability.m = 5
       /\ ~check_security(new_availability).ok
       /\ ~check_correctness(new_availability).ok
       /\ ret'.op \in {"IBE.setup", "IBE.extract", "IBE.enc", "IBE.dec"} =>
            (DOMAIN ret') \cap {"err", "res"} = {}
       /\ ret'.op \in {"check_security", "check_correctness"} =>
            /\ ~ret'.res.ok
            /\ UNCHANGED <<ibe_storage, ibe_keys, par>>]_vars

\* on the instance ibe, which check_security has just rejected, a key was
\* extracted before, and a ciphertext is encrypted next
C16_Witness ==
    /\ ret.op = "check_security" /\ ~ret.res.ok
    /\ par = parameters(ibe)
    /\ ibe_storage # EmptyMap
    /\ ENABLED IBE_enc

-----------------------------------------------------------------------------
(* An FDH instance written by serde_json::to_string and read back *)

\* the messages signed: one of a caller, and the string of a ciphertext
ReloadMessages == {"a", "[[0],[0],[1]] mod 2"}

\* a string as a JSON string
json_string(str) == "\"" \o str \o "\""

\* Serialize for MatZ: {"matrix":"[[1],[2]]"}
MatZ_serialize(e) == "{\"matrix\":" \o json_string(MatZ_to_string(e)) \o "}"

\* Deserialize for MatZ: the matrix the string of the record stands for
MatZ_deserialize(json) ==
    CHOOSE e \in Vectors(fdh.psf) : MatZ_serialize(e) = json

\* the member "storage" of the JSON object of an instance: a JSON object
\* with one member for each entry, in no particular order
serialize_storage(storage) ==
    { [key |-> json_string(m), value |-> MatZ_serialize(storage[m])] :
        m \in DOMAIN storage }

\* a deserialization that leaves the storage empty
deserialize_storage_skipped(json) == EmptyMap

\* the HashMap read from the member "storage"
deserialize_storage(json) ==
    LET key_of(x) == CHOOSE m \in ReloadMessages : json_string(m) = x.key
    IN  [m \in { key_of(x) : x \in json } |->
            MatZ_deserialize((CHOOSE x \in json : key_of(x) = m).value)]

\* before serde_json::from_str there is no second instance
NotLoaded == [loaded |-> FALSE]

\* gen; the caller keeps the latest key pair only
Reload_gen ==
    \E kp \in FdhKeyPairs :
        /\ sig_keys' = {kp}
        /\ ret' = [op |-> "FDH.gen"]
        /\ UNCHANGED <<sig_storage, sign_log, ibe_storage, ibe_keys,
                       extract_log, extract_sampled, ccs_keys, par>>

\* sign on the first instance, fdh; the calls are not logged
Reload_sign ==
    \E kp \in sig_keys, m \in ReloadMessages :
        \E r \in sign(sig_storage, m, kp.sk, kp.pk) :
            /\ sig_storage' = r.storage
            /\ ret' = [op |-> "FDH.sign", m |-> m, pk |-> kp.pk, sk |-> kp.sk,
                       sigma |-> r.sigma, sampled |-> r.sampled]
            /\ UNCHANGED <<sig_keys, sign_log, ibe_storage, ibe_keys,
                           extract_log, extract_sampled, ccs_keys, par>>

\* fdh_2 = serde_json::from_str(serde_json::to_string(&fdh)); signed holds
\* the messages that were signed before
Reload_to_string_from_str ==
    /\ par' = [loaded |-> TRUE,
               storage |-> deserialize_storage(serialize_storage(sig_storage)),
               signed |-> DOMAIN sig_storage]
    /\ ret' = [op |-> "from_str"]
    /\ UNCHANGED <<sig_storage, sig_keys, sign_log, ibe_storage, ibe_keys,
                   extract_log, extract_sampled, ccs_keys>>

\* sign on the second instance, fdh_2
Reload_sign_2 ==
    /\ par.loaded
    /\ \E kp \in sig_keys, m \in ReloadMessages :
         \E r \in sign(par.storage, m, kp.sk, kp.pk) :
            /\ par' = [par EXCEPT !.storage = r.storage]
            /\ ret' = [op |-> "fdh_2.sign", m |-> m, pk |-> kp.pk,
                       sk |-> kp.sk, sigma |-> r.sigma, sampled |-> r.sampled]
    /\ UNCHANGED <<sig_storage, sig_keys, sign_log, ibe_storage, ibe_keys,
                   extract_log, extract_sampled, ccs_keys>>

InitReload ==
    /\ sig_storage = EmptyMap
    /\ sig_keys = {}
    /\ sign_log = {}
    /\ ibe_storage = EmptyMap
    /\ ibe_keys = {}
    /\ extract_log = {}
    /\ extract_sampled = {}
    /\ ccs_keys = {}
    /\ ret = NoCall
    /\ par = NotLoaded

NextReload ==
    Reload_gen \/ Reload_sign \/ Reload_to_string_from_str \/ Reload_sign_2

SpecReload == InitReload /\ [][NextReload]_vars

-----------------------------------------------------------------------------
(* Generation of trapdoors and of instances from the security parameter *)

\* The three functions keep no state: a behaviour is one call of one of them.
\* The arguments: n below, at and above the least admitted value, and with
\* n >= 1 the moduli for which every a_bar and r can be enumerated.
GadgetCalls ==
    { [n |-> n, q |-> 2] : n \in {-1, 0} }
        \cup { [n |-> 1, q |-> q] : q \in {2, 3, 4} }
        \cup { [n |-> 2, q |-> 2] }

g_trapdoor_gen_trapdoor_default ==
    /\ ret = NoCall
    /\ \E t \in gen_trapdoor_default(par.n, par.q) :
         ret' = [op |-> "gen_trapdoor_default", res |-> t]
    /\ UNCHANGED <<sig_storage, sig_keys, sign_log, ibe_storage, ibe_keys,
                   extract_log, extract_sampled, ccs_keys, par>>

g_trapdoor_gen_trapdoor_ring_default ==
    /\ ret = NoCall
    /\ \E t \in gen_trapdoor_ring_default(par.n, par.q, <<1, 1>>) :
         ret' = [op |-> "gen_trapdoor_ring_default", res |-> t]
    /\ UNCHANGED <<sig_storage, sig_keys, sign_log, ibe_storage, ibe_keys,
                   extract_log, extract_sampled, ccs_keys, par>>

DualRegevIBE_new_from_n ==
    /\ ret = NoCall
    /\ \E t \in new_from_n(par.n) :
         ret' = [op |-> "new_from_n", res |-> t]
    /\ UNCHANGED <<sig_storage, sig_keys, sign_log, ibe_storage, ibe_keys,
                   extract_log, extract_sampled, ccs_keys, par>>

InitGadget ==
    /\ sig_storage = EmptyMap
    /\ sig_keys = {}
    /\ sign_log = {}
    /\ ibe_storage = EmptyMap
    /\ ibe_keys = {}
    /\ extract_log = {}
    /\ extract_sampled = {}
    /\ ccs_keys = {}
    /\ ret = NoCall
    /\ par \in GadgetCalls

NextGadget ==
    \/ g_trapdoor_gen_trapdoor_default
    \/ g_trapdoor_gen_trapdoor_ring_default
    \/ DualRegevIBE_new_from_n

SpecGadget == InitGadget /\ [][NextGadget]_vars

\* C12: for n >= 1 and q > 1, gen_trapdoor_default(n, q) returns (a, r) with
\* a * [r ; I_(n*k)] = gen_gadget_mat(n, k, 2) mod q for k = ceil(log2 q),
\* whatever a_bar and r were sampled
C12_DefaultIsTrapdoor ==
    (ret.op = "gen_trapdoor_default" /\ par.n >= 1 /\ par.q > 1) =>
        LET k == log_ceil(par.q)
            trapdoor == concat_vertical(ret.res.r, identity_mat(par.n * k))
        IN  /\ ret.res.a.mod = par.q
            /\ MatMod(MatMul(ret.res.a.mat, trapdoor), par.q)
                 = MatMod(gen_gadget_mat(par.n, k, 2), par.q)

\* gen_trapdoor_default(2, 2) has returned a trapdoor with a nonzero entry,
\* for a matrix a that is not [a_bar | G]
C12_Witness ==
    /\ ret.op = "gen_trapdoor_default" /\ par.n = 2 /\ par.q = 2
    /\ \E i \in 1..NumRows(ret.res.r) : ret.res.r[i][1] = -1
    /\ \E i \in 1..2 : ret.res.a.mat[i][4] # gen_gadget_mat(2, 1, 2)[i][1]

\* C17: gen_trapdoor_default and gen_trapdoor_ring_default panic for n < 1,
\* and new_from_n panics for n < 2, before any random value is drawn; no
\* matrix, trapdoor or parameter set is returned and no key is kept
C17_PanicBeforeSampling ==
    LET malformed == IF ret.op = "new_from_n" THEN par.n < 2 ELSE par.n < 1
    IN  (/\ ret.op \in {"gen_trapdoor_default", "gen_trapdoor_ring_default",
                        "new_from_n"}
         /\ malformed) =>
            /\ ret.res = Panicked(<<>>)
            /\ sig_keys = {} /\ ibe_keys = {} /\ ccs_keys = {}

\* gen_trapdoor_ring_default(0, 2, 1) has panicked
C17_Witness ==
    /\ ret.op = "gen_trapdoor_ring_default" /\ par.n = 0
    /\ ret.res = Panicked(<<>>)

\* C19: for n >= 1 and q > 1, with k = ceil(log2 q) and
\* m_bar = n*k + ceil(log2 n)^2, gen_trapdoor_default(n, q) returns a with n
\* rows and m_bar + n*k columns and r with m_bar rows and n*k columns
C19_DefaultDimensions ==
    (ret.op = "gen_trapdoor_default" /\ par.n >= 1 /\ par.q > 1) =>
        LET k == log_ceil(par.q)
            m_bar == par.n * k + log_ceil(par.n) * log_ceil(par.n)
        IN  /\ NumRows(ret.res.a.mat) = par.n
            /\ \A i \in 1..par.n : Len(ret.res.a.mat[i]) = m_bar + par.n * k
            /\ NumRows(ret.res.r) = m_bar
            /\ \A i \in 1..m_bar : Len(ret.res.r[i]) = par.n * k

\* gen_trapdoor_default(2, 2) has returned a 2 x 5 matrix and a 3 x 2
\* trapdoor: ceil(log2 n)^2 = 1 is part of m_bar
C19_Witness ==
    /\ ret.op = "gen_trapdoor_default" /\ par.n = 2 /\ par.q = 2
    /\ NumRows(ret.res.a.mat) = 2 /\ NumCols(ret.res.a.mat) = 5
    /\ NumRows(ret.res.r) = 3 /\ NumCols(ret.res.r) = 2

-----------------------------------------------------------------------------
(* The instances new and new_from_n build, and their master public keys *)

\* the default instances with the least and with the greatest modulus
DefaultEnds ==
    { i \in Default :
        \/ \A j \in Default : i.dual_regev.q <= j.dual_regev.q
        \/ \A j \in Default : i.dual_regev.q >= j.dual_regev.q }

\* the instances under study: DualRegevIBE::new for small n and q, as the
\* tests call it, new_from_n(2) for every prime it can draw, and the default
\* for the ends of its range of primes
BuiltInstances ==
    { DualRegevIBE_new(n, q, <<3, 4>>, <<1, 4>>) : n \in 1..2, q \in 2..4 }
        \cup new_from_n(2) \cup DefaultEnds

\* the matrices the samplers draw here: one value in every entry
DrawnMats(r, c, S) == { [i \in 1..r |-> [j \in 1..c |-> v]] : v \in S }

\* self.psf.trap_gen() of `instance`, for the a_bar and r drawn here
setup_of(instance) ==
    LET gp == instance.psf.gp
    IN  { LET t == gen_trapdoor(gp, a_bar, identity_mat(gp.n), r)
          IN  [pk |-> t.a, sk |-> <<t.r, MatQ_from(t.r)>>] :
            a_bar \in DrawnMats(gp.n, gp.m_bar, {0, 1, gp.q - 1}),
            r \in DrawnMats(gp.m_bar, gp.n * gp.k, {-1, 0, 1}) }

Instance_setup ==
    /\ ret = NoCall
    /\ \E kp \in setup_of(par) :
         ret' = [op |-> "setup", pk |-> kp.pk, sk |-> kp.sk]
    /\ UNCHANGED <<sig_storage, sig_keys, sign_log, ibe_storage, ibe_keys,
                   extract_log, extract_sampled, ccs_keys, par>>

\* the syndromes extract and enc hash an identity to, under a master public
\* key setup has returned
Instance_hash ==
    /\ ret.op = "setup"
    /\ \E identity \in Identities :
         ret' = [op |-> "hash", pk |-> ret.pk, identity |-> identity,
                 extract_u |-> extract_hash_in(par, identity),
                 enc_u |-> enc_hash(ret.pk, identity)]
    /\ UNCHANGED <<sig_storage, sig_keys, sign_log, ibe_storage, ibe_keys,
                   extract_log, extract_sampled, ccs_keys, par>>

InitInstances ==
    /\ sig_storage = EmptyMap
    /\ sig_keys = {}
    /\ sign_log = {}
    /\ ibe_storage = EmptyMap
    /\ ibe_keys = {}
    /\ extract_log = {}
    /\ extract_sampled = {}
    /\ ccs_keys = {}
    /\ ret = NoCall
    /\ par \in BuiltInstances

NextInstances == Instance_setup \/ Instance_hash

SpecInstances == InitInstances /\ [][NextInstances]_vars

\* C21: for the same identity, extract and enc hash to the same syndrome u,
\* whatever master public key setup of the instance has returned: the rows
\* and the modulus of that key are the instance's dual_regev.n and
\* dual_regev.q.
C21_SameSyndrome ==
    /\ ret.op = "setup" =>
         /\ NumRows(ret.pk.mat) = par.dual_regev.n
         /\ ret.pk.mod = par.dual_regev.q
    /\ ret.op = "hash" => ret.extract_u = ret.enc_u

\* both hashes taken for a key of a default instance, a column of 4 entries
C21_Witness ==
    /\ ret.op = "hash" /\ par \in DefaultEnds
    /\ ret.identity = "ab"
    /\ NumRows(ret.extract_u.mat) = 4 /\ NumRows(ret.enc_u.mat) = 4
    /\ ret.extract_u.mod = par.dual_regev.q

\* C22: the dimension m handed to DualRegev, m_bar + n*ceil(log2 q), is the
\* number of columns of every master public key setup returns and the m of
\* the gadget parameters, and the PSF and DualRegev parts have the same n
\* and q, for the instances of new and of new_from_n.
C22_SharedDimensions ==
    /\ par.dual_regev.m = par.psf.gp.m_bar + par.dual_regev.n * log_ceil(par.dual_regev.q)
    /\ par.dual_regev.m = par.psf.gp.m
    /\ par.dual_regev.n = par.psf.gp.n
    /\ par.dual_regev.q = par.psf.gp.q
    /\ ret.op = "setup" => NumCols(ret.pk.mat) = par.dual_regev.m

\* a master public key of a default instance: 4 rows, 116 columns
C22_Witness ==
    /\ ret.op = "setup" /\ par \in DefaultEnds
    /\ par.dual_regev.n = 4 /\ par.dual_regev.m = 116
    /\ NumCols(ret.pk.mat) = 116 /\ NumRows(ret.pk.mat) = 4

====
